---- MODULE Spec2Model ----
(***************************************************************************)
(* A model of the lexical analyzer of lexer.py / fa_tables.py / tokens.py. *)
(*                                                                         *)
(* A string is a sequence of one-character strings, so "" (Python's empty  *)
(* string, what _peek returns at end of input) is <<>> for a lexeme and    *)
(* the TLA+ string "" for a single character.  The index i is the Python   *)
(* 0-based index: the current character is text[i + 1] here.               *)
(*                                                                         *)
(* The Lexer object and the frame of one tokenize call are the variables;  *)
(* every handler of the scan loop is an operator from a lexer state (a     *)
(* record of all the variables) to the next one, and an action applies it. *)
(***************************************************************************)
EXTENDS Integers, Sequences, FiniteSets, TLC

\* ------------------------------------------------------------- bounds

\* Longest input drawn over the general alphabet.
MaxLen == 2
\* Longest input drawn over the string-literal alphabet.
MaxStringLen == 4
\* Longest input drawn over the operator alphabet.
MaxOperatorLen == 3
\* Longest input drawn over the comment and layout alphabet.
MaxCommentLen == 4
\* Longest input drawn over the numeric-literal alphabet.
MaxNumberLen == 5
\* Longest input drawn over the identifier and keyword alphabet.
MaxIdentLen == 3
\* Longest input drawn over the alphabet of unrecognized characters.
MaxUnknownLen == 2
\* Calls of tokenize on one Lexer object (SpecReuse).
MaxCalls == 2

\* ------------------------------------------------------------- tokens.py

KEYWORD == "KEYWORD"
IDENTIFIER == "IDENTIFIER"
INTEGER == "INTEGER"
FLOAT == "FLOAT"
\* tokens.STRING (STRING itself is a TLA+ keyword)
T_STRING == "STRING"
OPERATOR == "OPERATOR"
DELIMITER == "DELIMITER"
COMMENT == "COMMENT"
NEWLINE == "NEWLINE"
EOF == "EOF"
ERROR == "ERROR"

Token(ttype, lexeme, line, col) ==
  [type |-> ttype, lexeme |-> lexeme, line |-> line, col |-> col]

\* ------------------------------------------------------------- fa_tables.py

C_WS == "WS"
C_NL == "NL"
C_LETTER == "LETTER"
C_DIGIT == "DIGIT"
C_DOT == "DOT"
C_HASH == "HASH"
C_SQUOTE == "SQUOTE"
C_DQUOTE == "DQUOTE"
C_BSLASH == "BSLASH"
C_OTHER == "OTHER"

Letters ==
  {"_",
   "a", "b", "c", "d", "e", "f", "g", "h", "i", "j", "k", "l", "m",
   "n", "o", "p", "q", "r", "s", "t", "u", "v", "w", "x", "y", "z",
   "A", "B", "C", "D", "E", "F", "G", "H", "I", "J", "K", "L", "M",
   "N", "O", "P", "Q", "R", "S", "T", "U", "V", "W", "X", "Y", "Z"}

Digits == {"0", "1", "2", "3", "4", "5", "6", "7", "8", "9"}

char_class(ch) ==
  IF ch = "" THEN C_OTHER
  ELSE IF ch \in {" ", "\t"} THEN C_WS
  ELSE IF ch = "\n" THEN C_NL
  ELSE IF ch \in Letters THEN C_LETTER
  ELSE IF ch \in Digits THEN C_DIGIT
  ELSE IF ch = "." THEN C_DOT
  ELSE IF ch = "#" THEN C_HASH
  ELSE IF ch = "'" THEN C_SQUOTE
  ELSE IF ch = "\"" THEN C_DQUOTE
  ELSE IF ch = "\\" THEN C_BSLASH
  ELSE C_OTHER

\* The states of the automaton.
S_START == 0
S_IDENT == 1
S_INT == 2
S_FLOAT_DOT == 3
S_FLOAT == 4
S_STRING_SQ == 5
S_STRING_DQ == 6
S_COMMENT == 8
S_DONE == 9

CharClasses ==
  {C_WS, C_NL, C_LETTER, C_DIGIT, C_DOT, C_HASH, C_SQUOTE, C_DQUOTE,
   C_BSLASH, C_OTHER}

\* transitions[state][character class] is the next state; a state or a
\* class that is no key of the dict is outside the DOMAIN.
transitions ==
  (S_START :>
     (C_WS :> S_START @@ C_NL :> S_START @@ C_LETTER :> S_IDENT
      @@ C_DIGIT :> S_INT @@ C_DOT :> S_DONE @@ C_HASH :> S_COMMENT
      @@ C_SQUOTE :> S_STRING_SQ @@ C_DQUOTE :> S_STRING_DQ
      @@ C_OTHER :> S_DONE))
  @@ (S_IDENT :>
     (C_LETTER :> S_IDENT @@ C_DIGIT :> S_IDENT @@ C_OTHER :> S_DONE
      @@ C_WS :> S_DONE @@ C_NL :> S_DONE @@ C_DOT :> S_DONE
      @@ C_HASH :> S_DONE @@ C_SQUOTE :> S_DONE @@ C_DQUOTE :> S_DONE
      @@ C_BSLASH :> S_DONE))
  @@ (S_INT :>
     (C_DIGIT :> S_INT @@ C_DOT :> S_FLOAT_DOT @@ C_OTHER :> S_DONE
      @@ C_WS :> S_DONE @@ C_NL :> S_DONE @@ C_LETTER :> S_DONE
      @@ C_HASH :> S_DONE @@ C_SQUOTE :> S_DONE @@ C_DQUOTE :> S_DONE
      @@ C_BSLASH :> S_DONE))
  @@ (S_FLOAT_DOT :>
     (C_DIGIT :> S_FLOAT @@ C_OTHER :> S_DONE @@ C_WS :> S_DONE
      @@ C_NL :> S_DONE @@ C_DOT :> S_DONE @@ C_LETTER :> S_DONE
      @@ C_HASH :> S_DONE @@ C_SQUOTE :> S_DONE @@ C_DQUOTE :> S_DONE
      @@ C_BSLASH :> S_DONE))
  @@ (S_FLOAT :>
     (C_DIGIT :> S_FLOAT @@ C_OTHER :> S_DONE @@ C_WS :> S_DONE
      @@ C_NL :> S_DONE @@ C_DOT :> S_DONE @@ C_LETTER :> S_DONE
      @@ C_HASH :> S_DONE @@ C_SQUOTE :> S_DONE @@ C_DQUOTE :> S_DONE
      @@ C_BSLASH :> S_DONE))
  @@ (S_COMMENT :>
     (C_NL :> S_DONE @@ C_OTHER :> S_COMMENT @@ C_WS :> S_COMMENT
      @@ C_LETTER :> S_COMMENT @@ C_DIGIT :> S_COMMENT @@ C_DOT :> S_COMMENT
      @@ C_HASH :> S_COMMENT @@ C_SQUOTE :> S_COMMENT
      @@ C_DQUOTE :> S_COMMENT @@ C_BSLASH :> S_COMMENT))

\* transitions[state][cls] is there to look up (no KeyError).
HasEntry(state, cls) ==
  state \in DOMAIN transitions /\ cls \in DOMAIN transitions[state]

\* ------------------------------------------------------------- lexer.py data

DELIMITERS == {"(", ")", "[", "]", "{", "}", ",", ":", ".", ";"}

OPERATORS ==
  << <<"*", "*", "=">>, <<"/", "/", "=">>, <<"=", "=">>, <<"!", "=">>,
     <<"<", "=">>, <<">", "=">>, <<"+", "=">>, <<"-", "=">>, <<"*", "=">>,
     <<"/", "=">>, <<"%", "=">>, <<"*", "*">>, <<"/", "/">>, <<"+">>,
     <<"-">>, <<"*">>, <<"/">>, <<"%">>, <<"=">>, <<"<">>, <<">">> >>

\* The reserved words of keywords.py (Python's keyword list).
PYTHON_KEYWORDS ==
  {
    <<"F", "a", "l", "s", "e">>,
    <<"N", "o", "n", "e">>,
    <<"T", "r", "u", "e">>,
    <<"a", "n", "d">>,
    <<"a", "s">>,
    <<"a", "s", "s", "e", "r", "t">>,
    <<"a", "s", "y", "n", "c">>,
    <<"a", "w", "a", "i", "t">>,
    <<"b", "r", "e", "a", "k">>,
    <<"c", "l", "a", "s", "s">>,
    <<"c", "o", "n", "t", "i", "n", "u", "e">>,
    <<"d", "e", "f">>,
    <<"d", "e", "l">>,
    <<"e", "l", "i", "f">>,
    <<"e", "l", "s", "e">>,
    <<"e", "x", "c", "e", "p", "t">>,
    <<"f", "i", "n", "a", "l", "l", "y">>,
    <<"f", "o", "r">>,
    <<"f", "r", "o", "m">>,
    <<"g", "l", "o", "b", "a", "l">>,
    <<"i", "f">>,
    <<"i", "m", "p", "o", "r", "t">>,
    <<"i", "n">>,
    <<"i", "s">>,
    <<"l", "a", "m", "b", "d", "a">>,
    <<"n", "o", "n", "l", "o", "c", "a", "l">>,
    <<"n", "o", "t">>,
    <<"o", "r">>,
    <<"p", "a", "s", "s">>,
    <<"r", "a", "i", "s", "e">>,
    <<"r", "e", "t", "u", "r", "n">>,
    <<"t", "r", "y">>,
    <<"w", "h", "i", "l", "e">>,
    <<"w", "i", "t", "h">>,
    <<"y", "i", "e", "l", "d">>
  }

\* str.startswith
StartsWith(s, prefix) ==
  /\ Len(prefix) <= Len(s)
  /\ SubSeq(s, 1, Len(prefix)) = prefix

\* Membership tested where the prefix test belongs.
ExactOperator(s) ==
  \E k \in 1..Len(OPERATORS) : OPERATORS[k] = s

is_operator_prefix(s) ==
  \E k \in 1..Len(OPERATORS) : StartsWith(OPERATORS[k], s)

\* op_lex in OPERATORS
InOperators(s) ==
  \E k \in 1..Len(OPERATORS) : OPERATORS[k] = s

\* KEYWORD as soon as the lexeme starts with a reserved word.
classify_ident_ByPrefix(lexeme) ==
  IF \E kw \in PYTHON_KEYWORDS : StartsWith(lexeme, kw)
  THEN KEYWORD ELSE IDENTIFIER

classify_ident(lexeme) ==
  IF lexeme \in PYTHON_KEYWORDS THEN KEYWORD ELSE IDENTIFIER

\* ------------------------------------------------------------- state

VARIABLES
  text, i, line, col,            \* the Lexer object's fields
  emit_newlines, emit_comments,  \* the parameters of the running tokenize call
  tokens,                        \* its token list
  ch, start_line, start_col,     \* locals of the main loop
  lex, quote, escaped, seen_dot, \* locals of the sub-scans
  op_lex, j,                     \* locals of the operator match
  pc,                            \* where control is
  start_i,                       \* history: the index at which the iteration began
  log,                           \* history: what each iteration consumed
  calls, results,                \* history: tokenize calls made, lists returned
  steps                          \* history: steps taken since construction

vars ==
  <<text, i, line, col, emit_newlines, emit_comments, tokens, ch, start_line,
    start_col, lex, quote, escaped, seen_dot, op_lex, j, pc, start_i, log,
    calls, results, steps>>

\* The lexer state as one record.
Cur ==
  [text |-> text, i |-> i, line |-> line, col |-> col,
   emit_newlines |-> emit_newlines, emit_comments |-> emit_comments,
   tokens |-> tokens, ch |-> ch, start_line |-> start_line,
   start_col |-> start_col, lex |-> lex, quote |-> quote,
   escaped |-> escaped, seen_dot |-> seen_dot, op_lex |-> op_lex, j |-> j,
   pc |-> pc, start_i |-> start_i, log |-> log, calls |-> calls,
   results |-> results]

\* The variables hold the lexer state s.
StateIs(s) ==
  /\ text = s.text /\ i = s.i /\ line = s.line /\ col = s.col
  /\ emit_newlines = s.emit_newlines /\ emit_comments = s.emit_comments
  /\ tokens = s.tokens /\ ch = s.ch /\ start_line = s.start_line
  /\ start_col = s.start_col /\ lex = s.lex /\ quote = s.quote
  /\ escaped = s.escaped /\ seen_dot = s.seen_dot /\ op_lex = s.op_lex
  /\ j = s.j /\ pc = s.pc /\ start_i = s.start_i /\ log = s.log
  /\ calls = s.calls /\ results = s.results

\* One step to the lexer state s.
Becomes(s) ==
  /\ text' = s.text /\ i' = s.i /\ line' = s.line /\ col' = s.col
  /\ emit_newlines' = s.emit_newlines /\ emit_comments' = s.emit_comments
  /\ tokens' = s.tokens /\ ch' = s.ch /\ start_line' = s.start_line
  /\ start_col' = s.start_col /\ lex' = s.lex /\ quote' = s.quote
  /\ escaped' = s.escaped /\ seen_dot' = s.seen_dot /\ op_lex' = s.op_lex
  /\ j' = s.j /\ pc' = s.pc /\ start_i' = s.start_i /\ log' = s.log
  /\ calls' = s.calls /\ results' = s.results
  /\ steps' = steps + 1

\* ------------------------------------------------------------- Lexer

\* Lexer.__init__: the locals of tokenize are not bound yet.
Lexer(t) ==
  [text |-> t, i |-> 0, line |-> 1, col |-> 1,
   emit_newlines |-> TRUE, emit_comments |-> TRUE,
   tokens |-> <<>>, ch |-> "", start_line |-> 0, start_col |-> 0,
   lex |-> <<>>, quote |-> "", escaped |-> FALSE, seen_dot |-> FALSE,
   op_lex |-> <<>>, j |-> 0,
   pc |-> "idle", start_i |-> 0, log |-> <<>>, calls |-> 0,
   results |-> <<>>]

_peek(s) ==
  IF s.i >= Len(s.text) THEN "" ELSE s.text[s.i + 1]

\* What _advance returns: the character it consumed, "" at end of input.
_advance_returns(s) ==
  IF _peek(s) = "" THEN "" ELSE _peek(s)

\* The cursor moved on at end of input too.
_advance_PastEnd(s) ==
  IF _peek(s) = "\n"
  THEN [s EXCEPT !.i = @ + 1, !.line = @ + 1, !.col = 1]
  ELSE [s EXCEPT !.i = @ + 1, !.col = @ + 1]

\* The line not counted at a newline.
_advance_NoLineCount(s) ==
  IF _peek(s) = "" THEN s
  ELSE IF _peek(s) = "\n"
       THEN [s EXCEPT !.i = @ + 1, !.col = 1]
       ELSE [s EXCEPT !.i = @ + 1, !.col = @ + 1]

\* The column not reset at a newline.
_advance_NoColumnReset(s) ==
  IF _peek(s) = "" THEN s
  ELSE IF _peek(s) = "\n"
       THEN [s EXCEPT !.i = @ + 1, !.line = @ + 1, !.col = @ + 1]
       ELSE [s EXCEPT !.i = @ + 1, !.col = @ + 1]

_advance(s) ==
  IF _peek(s) = "" THEN s
  ELSE IF _peek(s) = "\n"
       THEN [s EXCEPT !.i = @ + 1, !.line = @ + 1, !.col = 1]
       ELSE [s EXCEPT !.i = @ + 1, !.col = @ + 1]

_make_token(ttype, lexeme, sl, sc) == Token(ttype, lexeme, sl, sc)

\* tokens.append(tok); the log notes the iteration's start index.
Emit(s, tok) ==
  [s EXCEPT !.tokens = Append(@, tok),
            !.log = Append(@, [what |-> "token", at |-> s.start_i,
                               lex |-> tok.lexeme])]

\* An iteration that appends no token: the log notes what it consumed.
Skip(s, what, consumed) ==
  [s EXCEPT !.log = Append(@, [what |-> what, at |-> s.start_i,
                               lex |-> consumed])]

\* Top of the main loop, input left: ch, start_line, start_col.
Begin(s) ==
  [s EXCEPT !.ch = _peek(s), !.start_line = s.line, !.start_col = s.col,
            !.start_i = s.i]

\* n calls of _advance
RECURSIVE AdvanceN(_, _)
AdvanceN(s, n) ==
  IF n = 0 THEN s ELSE AdvanceN(_advance(s), n - 1)

\* ------------------------------------------------------------- tokenize

\* Entry of tokenize(emit_newlines, emit_comments).
Call(s, en, ec) ==
  [s EXCEPT !.emit_newlines = en, !.emit_comments = ec, !.tokens = <<>>,
            !.log = <<>>, !.calls = @ + 1, !.pc = "loop"]

AtLoop(s) == s.pc = "loop" /\ _peek(s) # ""
cc(s) == char_class(_peek(s))

\* The loop breaks at end of input; the EOF token; return.
AtEndOfInput(s) == s.pc = "loop" /\ _peek(s) = ""
\* The EOF token placed where the last token began, not at the cursor.
EndOfInputBranch_AtStart(s) ==
  LET toks == Append(s.tokens,
                     _make_token(EOF, <<>>, s.start_line, s.start_col))
  IN [s EXCEPT !.tokens = toks, !.pc = "done",
               !.results = Append(@, [emit_newlines |-> s.emit_newlines,
                                      emit_comments |-> s.emit_comments,
                                      tokens |-> toks])]
EndOfInputBranch(s) ==
  LET toks == Append(s.tokens, _make_token(EOF, <<>>, s.line, s.col))
  IN [s EXCEPT !.tokens = toks, !.pc = "done",
               !.results = Append(@, [emit_newlines |-> s.emit_newlines,
                                      emit_comments |-> s.emit_comments,
                                      tokens |-> toks])]

AtNewline(s) == AtLoop(s) /\ cc(s) = C_NL
NewlineBranch(s) ==
  LET b == Begin(s)
      a == _advance(b)
  IN IF s.emit_newlines
     THEN Emit(a, _make_token(NEWLINE, <<"\n">>, b.start_line, b.start_col))
     ELSE Skip(a, "newline", <<b.ch>>)

AtWhitespace(s) == AtLoop(s) /\ cc(s) = C_WS
WhitespaceBranch(s) ==
  LET b == Begin(s)
  IN Skip(_advance(b), "whitespace", <<b.ch>>)

\* Comments
AtCommentStart(s) == AtLoop(s) /\ cc(s) = C_HASH
\* The '#' consumed on entry and left out of the lexeme.
CommentStart_DropsHash(s) ==
  [_advance(Begin(s)) EXCEPT !.lex = <<>>, !.pc = "comment"]
CommentStart(s) ==
  [Begin(s) EXCEPT !.lex = <<>>, !.pc = "comment"]

\* The comment also ends at a quote.
CommentMore_StopsAtQuote(s) ==
  /\ _peek(s) # ""
  /\ char_class(_peek(s)) \notin {C_NL, C_SQUOTE, C_DQUOTE}
CommentMore(s) == _peek(s) # "" /\ char_class(_peek(s)) # C_NL
AtCommentChar(s) == s.pc = "comment" /\ CommentMore(s)
CommentChar(s) ==
  [_advance(s) EXCEPT !.lex = Append(@, _peek(s))]

AtCommentEnd(s) == s.pc = "comment" /\ ~CommentMore(s)
\* The emit_comments flag ignored.
CommentEnd_AlwaysEmits(s) ==
  Emit([s EXCEPT !.pc = "loop"],
       _make_token(COMMENT, s.lex, s.start_line, s.start_col))
CommentEnd(s) ==
  LET r == [s EXCEPT !.pc = "loop"]
  IN IF s.emit_comments
     THEN Emit(r, _make_token(COMMENT, s.lex, s.start_line, s.start_col))
     ELSE Skip(r, "comment", s.lex)

\* Strings
AtStringStart(s) == AtLoop(s) /\ cc(s) \in {C_SQUOTE, C_DQUOTE}
StringStart(s) ==
  LET b == Begin(s)
  IN [_advance(b) EXCEPT !.quote = b.ch, !.lex = <<b.ch>>,
                         !.escaped = FALSE, !.pc = "string"]

\* A string loop with no end-of-input check: it spins at end of input.
NoStringEof(s) == FALSE
AtStringEof(s) == s.pc = "string" /\ _peek(s) = ""
\* The ERROR token placed at the cursor, not at the opening quote.
StringEof_AtCursor(s) ==
  Emit([s EXCEPT !.pc = "loop"], _make_token(ERROR, s.lex, s.line, s.col))
StringEof(s) ==
  Emit([s EXCEPT !.pc = "loop"],
       _make_token(ERROR, s.lex, s.start_line, s.start_col))

AtStringChar(s) == s.pc = "string" /\ _peek(s) # ""
\* No escapes: a backslash is an ordinary character.
StringChar_NoEscape(s) ==
  LET c2 == _peek(s)
      a == [_advance(s) EXCEPT !.lex = Append(@, c2)]
  IN IF (s.quote = "'" /\ c2 = "'") \/ (s.quote = "\"" /\ c2 = "\"")
       THEN Emit([a EXCEPT !.pc = "loop"],
                 _make_token(T_STRING, a.lex, s.start_line, s.start_col))
     ELSE IF c2 = "\n"
       THEN Emit([a EXCEPT !.pc = "loop"],
                 _make_token(ERROR, a.lex, s.start_line, s.start_col))
     ELSE a
\* No check for a newline: a literal runs on over line ends.
StringChar_NewlineContinues(s) ==
  LET c2 == _peek(s)
      a == [_advance(s) EXCEPT !.lex = Append(@, c2)]
  IN IF s.escaped THEN [a EXCEPT !.escaped = FALSE]
     ELSE IF c2 = "\\" THEN [a EXCEPT !.escaped = TRUE]
     ELSE IF (s.quote = "'" /\ c2 = "'") \/ (s.quote = "\"" /\ c2 = "\"")
       THEN Emit([a EXCEPT !.pc = "loop"],
                 _make_token(T_STRING, a.lex, s.start_line, s.start_col))
     ELSE a
StringChar(s) ==
  LET c2 == _peek(s)
      a == [_advance(s) EXCEPT !.lex = Append(@, c2)]
  IN IF s.escaped THEN [a EXCEPT !.escaped = FALSE]
     ELSE IF c2 = "\\" THEN [a EXCEPT !.escaped = TRUE]
     ELSE IF (s.quote = "'" /\ c2 = "'") \/ (s.quote = "\"" /\ c2 = "\"")
       THEN Emit([a EXCEPT !.pc = "loop"],
                 _make_token(T_STRING, a.lex, s.start_line, s.start_col))
     ELSE IF c2 = "\n"
       THEN Emit([a EXCEPT !.pc = "loop"],
                 _make_token(ERROR, a.lex, s.start_line, s.start_col))
     ELSE a

\* Identifiers / keywords
AtIdentStart(s) == AtLoop(s) /\ cc(s) = C_LETTER
IdentStart(s) ==
  [Begin(s) EXCEPT !.lex = <<>>, !.pc = "ident"]

IdentMore(s) ==
  _peek(s) # "" /\ char_class(_peek(s)) \in {C_LETTER, C_DIGIT}
AtIdentChar(s) == s.pc = "ident" /\ IdentMore(s)
IdentChar(s) ==
  [_advance(s) EXCEPT !.lex = Append(@, _peek(s))]

AtIdentEnd(s) == s.pc = "ident" /\ ~IdentMore(s)
IdentEnd(s) ==
  Emit([s EXCEPT !.pc = "loop"],
       _make_token(classify_ident(s.lex), s.lex, s.start_line, s.start_col))

\* Numbers
\* Only a digit starts a number: a '.' is left to the delimiter branch.
StartsNumber_DigitOnly(s) == cc(s) = C_DIGIT
StartsNumber(s) ==
  \/ cc(s) = C_DIGIT
  \/ /\ cc(s) = C_DOT
     /\ s.i + 1 < Len(s.text)
     /\ char_class(s.text[s.i + 2]) = C_DIGIT
AtNumberStart(s) == AtLoop(s) /\ StartsNumber(s)
NumberStart(s) ==
  LET b == [Begin(s) EXCEPT !.lex = <<>>, !.seen_dot = FALSE, !.pc = "number"]
  IN IF cc(s) = C_DOT
     THEN [_advance(b) EXCEPT !.seen_dot = TRUE, !.lex = Append(@, b.ch)]
     ELSE b

\* A '.' after the digits ends the literal.
NumberMore_DigitsOnly(s) ==
  _peek(s) # "" /\ char_class(_peek(s)) = C_DIGIT
NumberMore(s) ==
  /\ _peek(s) # ""
  /\ \/ char_class(_peek(s)) = C_DIGIT
     \/ char_class(_peek(s)) = C_DOT /\ ~s.seen_dot
AtNumberChar(s) == s.pc = "number" /\ NumberMore(s)
\* A '.' after digits consumed without seen_dot being set.
NumberChar_DotNotNoted(s) ==
  [_advance(s) EXCEPT !.lex = Append(@, _peek(s))]
NumberChar(s) ==
  LET a == [_advance(s) EXCEPT !.lex = Append(@, _peek(s))]
  IN IF char_class(_peek(s)) = C_DIGIT THEN a
     ELSE [a EXCEPT !.seen_dot = TRUE]

AtNumberEnd(s) == s.pc = "number" /\ ~NumberMore(s)
NumberEnd(s) ==
  Emit([s EXCEPT !.pc = "loop"],
       _make_token(IF s.seen_dot THEN FLOAT ELSE INTEGER, s.lex,
                   s.start_line, s.start_col))

\* Operators (maximal munch), then delimiters, then unknown
AtOperatorStart(s) ==
  /\ AtLoop(s)
  /\ cc(s) \notin {C_NL, C_WS, C_HASH, C_SQUOTE, C_DQUOTE, C_LETTER}
  /\ ~StartsNumber(s)
OperatorStart(s) ==
  [Begin(s) EXCEPT !.op_lex = <<>>, !.j = s.i, !.pc = "operator"]

\* self.text[self.i : j + 1]
cand(s) == SubSeq(s.text, s.i + 1, s.j + 1)
OperatorMore(s) == s.j < Len(s.text) /\ is_operator_prefix(cand(s))
AtOperatorExtend(s) == s.pc = "operator" /\ OperatorMore(s)
OperatorExtend(s) ==
  [s EXCEPT !.op_lex = cand(s), !.j = @ + 1]

AtOperatorEmit(s) ==
  s.pc = "operator" /\ ~OperatorMore(s) /\ InOperators(s.op_lex)
OperatorEmit(s) ==
  Emit([AdvanceN(s, Len(s.op_lex)) EXCEPT !.pc = "loop"],
       _make_token(OPERATOR, s.op_lex, s.start_line, s.start_col))

AtDelimiter(s) ==
  /\ s.pc = "operator" /\ ~OperatorMore(s) /\ ~InOperators(s.op_lex)
  /\ s.ch \in DELIMITERS
DelimiterBranch(s) ==
  Emit([_advance(s) EXCEPT !.pc = "loop"],
       _make_token(DELIMITER, <<s.ch>>, s.start_line, s.start_col))

AtUnknown(s) ==
  /\ s.pc = "operator" /\ ~OperatorMore(s) /\ ~InOperators(s.op_lex)
  /\ s.ch \notin DELIMITERS
\* The ERROR token appended without the character being consumed.
UnknownBranch_NoAdvance(s) ==
  Emit([s EXCEPT !.pc = "loop"],
       _make_token(ERROR, <<s.ch>>, s.start_line, s.start_col))
UnknownBranch(s) ==
  Emit([_advance(s) EXCEPT !.pc = "loop"],
       _make_token(ERROR, <<s.ch>>, s.start_line, s.start_col))

\* The step the lexer takes from s while a tokenize call runs.
StepOf(s) ==
  CASE AtEndOfInput(s) -> EndOfInputBranch(s)
    [] AtNewline(s) -> NewlineBranch(s)
    [] AtWhitespace(s) -> WhitespaceBranch(s)
    [] AtCommentStart(s) -> CommentStart(s)
    [] AtCommentChar(s) -> CommentChar(s)
    [] AtCommentEnd(s) -> CommentEnd(s)
    [] AtStringStart(s) -> StringStart(s)
    [] AtStringEof(s) -> StringEof(s)
    [] AtStringChar(s) -> StringChar(s)
    [] AtIdentStart(s) -> IdentStart(s)
    [] AtIdentChar(s) -> IdentChar(s)
    [] AtIdentEnd(s) -> IdentEnd(s)
    [] AtNumberStart(s) -> NumberStart(s)
    [] AtNumberChar(s) -> NumberChar(s)
    [] AtNumberEnd(s) -> NumberEnd(s)
    [] AtOperatorStart(s) -> OperatorStart(s)
    [] AtOperatorExtend(s) -> OperatorExtend(s)
    [] AtOperatorEmit(s) -> OperatorEmit(s)
    [] AtDelimiter(s) -> DelimiterBranch(s)
    [] AtUnknown(s) -> UnknownBranch(s)
    [] OTHER -> s

\* Some handler of the scan loop applies in s.  Every action below is one of
\* these guards with a next state that always exists, so this is ENABLED Scan.
CanStep(s) ==
  \/ AtEndOfInput(s)
  \/ AtNewline(s)
  \/ AtWhitespace(s)
  \/ AtCommentStart(s) \/ AtCommentChar(s) \/ AtCommentEnd(s)
  \/ AtStringStart(s) \/ AtStringEof(s) \/ AtStringChar(s)
  \/ AtIdentStart(s) \/ AtIdentChar(s) \/ AtIdentEnd(s)
  \/ AtNumberStart(s) \/ AtNumberChar(s) \/ AtNumberEnd(s)
  \/ AtOperatorStart(s) \/ AtOperatorExtend(s) \/ AtOperatorEmit(s)
  \/ AtDelimiter(s) \/ AtUnknown(s)

\* ------------------------------------------------------------- inputs

RECURSIVE StringsUpTo(_, _)
StringsUpTo(alphabet, n) ==
  IF n = 0 THEN {<<>>}
  ELSE LET shorter == StringsUpTo(alphabet, n - 1)
       IN shorter \cup {Append(s, c) : s \in shorter, c \in alphabet}

Alphabet == {" ", "\n", "#", "'", "\"", "\\", "a", "1", ".", "*", "=", "!"}
StringAlphabet == {"'", "\"", "\\", "\n", "a"}
OperatorAlphabet == {"*", "=", "/", "!", "<", "a"}
CommentAlphabet == {" ", "\n", "#", "a", "'"}
NumberAlphabet == {"1", ".", "x"}
IdentAlphabet == {"i", "f", "_", "1", " "}
UnknownAlphabet == {"!", "\\", "@", "$", "é", "=", "a"}
\* The numeric inputs written out in full.
NumberExamples ==
  { <<"1", "2", "3">>, <<"3", ".", "1", "4">>, <<".", "5">>, <<"5", ".">>,
    <<"1", ".", "2", ".", "3">>, <<"5", ".", "x">> }

Texts ==
  StringsUpTo(Alphabet, MaxLen)
    \cup StringsUpTo(StringAlphabet, MaxStringLen)
    \cup StringsUpTo(OperatorAlphabet, MaxOperatorLen)
    \cup StringsUpTo(CommentAlphabet, MaxCommentLen)
    \cup StringsUpTo(NumberAlphabet, MaxNumberLen)
    \cup StringsUpTo(IdentAlphabet, MaxIdentLen)
    \cup StringsUpTo(UnknownAlphabet, MaxUnknownLen)
    \cup NumberExamples

\* ------------------------------------------------------------- actions

Init == \E t \in Texts : StateIs(Lexer(t)) /\ steps = 0

\* lexer.tokenize(...) on the Lexer just constructed
Tokenize ==
  /\ pc = "idle"
  /\ \E en \in BOOLEAN, ec \in BOOLEAN : Becomes(Call(Cur, en, ec))

\* lexer.tokenize(...) again, on the same Lexer object
TokenizeAgain ==
  /\ pc = "done"
  /\ calls < MaxCalls
  /\ \E en \in BOOLEAN, ec \in BOOLEAN : Becomes(Call(Cur, en, ec))

EndOfInput == AtEndOfInput(Cur) /\ Becomes(EndOfInputBranch(Cur))
Newline == AtNewline(Cur) /\ Becomes(NewlineBranch(Cur))
Whitespace == AtWhitespace(Cur) /\ Becomes(WhitespaceBranch(Cur))
CommentBegin == AtCommentStart(Cur) /\ Becomes(CommentStart(Cur))
CommentScan == AtCommentChar(Cur) /\ Becomes(CommentChar(Cur))
CommentDone == AtCommentEnd(Cur) /\ Becomes(CommentEnd(Cur))
StringBegin == AtStringStart(Cur) /\ Becomes(StringStart(Cur))
StringUnterminated == AtStringEof(Cur) /\ Becomes(StringEof(Cur))
StringScan == AtStringChar(Cur) /\ Becomes(StringChar(Cur))
IdentBegin == AtIdentStart(Cur) /\ Becomes(IdentStart(Cur))
IdentScan == AtIdentChar(Cur) /\ Becomes(IdentChar(Cur))
IdentDone == AtIdentEnd(Cur) /\ Becomes(IdentEnd(Cur))
NumberBegin == AtNumberStart(Cur) /\ Becomes(NumberStart(Cur))
NumberScan == AtNumberChar(Cur) /\ Becomes(NumberChar(Cur))
NumberDone == AtNumberEnd(Cur) /\ Becomes(NumberEnd(Cur))
OperatorBegin == AtOperatorStart(Cur) /\ Becomes(OperatorStart(Cur))
OperatorScan == AtOperatorExtend(Cur) /\ Becomes(OperatorExtend(Cur))
OperatorDone == AtOperatorEmit(Cur) /\ Becomes(OperatorEmit(Cur))
Delimiter == AtDelimiter(Cur) /\ Becomes(DelimiterBranch(Cur))
Unknown == AtUnknown(Cur) /\ Becomes(UnknownBranch(Cur))

Scan ==
  \/ EndOfInput
  \/ Newline
  \/ Whitespace
  \/ CommentBegin
  \/ CommentScan
  \/ CommentDone
  \/ StringBegin
  \/ StringUnterminated
  \/ StringScan
  \/ IdentBegin
  \/ IdentScan
  \/ IdentDone
  \/ NumberBegin
  \/ NumberScan
  \/ NumberDone
  \/ OperatorBegin
  \/ OperatorScan
  \/ OperatorDone
  \/ Delimiter
  \/ Unknown

Next == Tokenize \/ Scan

\* One Lexer(text).tokenize(...) call, as main() and run_tests.py make it.
Spec == Init /\ [][Next]_vars

NextReuse == Next \/ TokenizeAgain

\* tokenize called up to MaxCalls times on one Lexer object.
SpecReuse == Init /\ [][NextReuse]_vars

\* ------------------------------------------------------------- claims

Done == pc = "done"

\* the tokens of toks whose type is ttype
OfType(toks, ttype) == SelectSeq(toks, LAMBDA tok : tok.type = ttype)

\* the positions of the newline characters of t
NewlinesOf(t) == {k \in 1..Len(t) : t[k] = "\n"}

Max(S) == CHOOSE x \in S : \A y \in S : y <= x
Min(S) == CHOOSE x \in S : \A y \in S : x <= y

\* The 1-based line and column of the character at 0-based index at of t,
\* counted from the text alone.
LineOf(t, at) == 1 + Cardinality(NewlinesOf(SubSeq(t, 1, at)))
ColOf(t, at) == 1 + at - Max({0} \cup NewlinesOf(SubSeq(t, 1, at)))

\* the log entries of the iterations that appended a token
TokenEntries(lg) == SelectSeq(lg, LAMBDA e : e.what = "token")

\* The most steps one tokenize call takes on a text of n characters: the
\* call, at most three steps a character, the return.
StepBound(n) == 3 * n + 2

\* C1: once called, tokenize returns a list of tokens, whatever the input
\* and the two flags: every loop exits (the steps of a call are bounded by
\* the length of the input), in no state short of the return is the lexer
\* stuck (nothing raises, malformed input does not stop the scan), and what
\* is returned is the token list.
C1_Terminates ==
  /\ steps <= StepBound(Len(text))
  /\ Done \/ pc = "idle" \/ CanStep(Cur)
  /\ Done =>
       /\ results # <<>>
       /\ results[Len(results)].tokens = tokens
       /\ \A k \in 1..Len(tokens) :
            tokens[k].type \in {KEYWORD, IDENTIFIER, INTEGER, FLOAT, T_STRING,
                                OPERATOR, DELIMITER, COMMENT, NEWLINE, EOF,
                                ERROR}

\* C1's case: a call that returned after scanning on past a malformed
\* construct (an ERROR token that is not the last token before EOF).
C1_Witness ==
  /\ Done
  /\ \E k \in 1..Len(tokens) :
       tokens[k].type = ERROR /\ k + 1 < Len(tokens)

\* C2: the returned list ends with an EOF token with the empty lexeme, at
\* the line and column of the end of the input (1 + the newlines of the
\* input, 1 + the characters after the last newline), and no other token,
\* during the scan or in the result, is an EOF token.
C2_EndsWithEof ==
  /\ ~Done => OfType(tokens, EOF) = <<>>
  /\ Done =>
       /\ tokens # <<>>
       /\ tokens[Len(tokens)] =
            Token(EOF, <<>>, LineOf(text, Len(text)), ColOf(text, Len(text)))
       /\ Len(OfType(tokens, EOF)) = 1
       /\ i = Len(text) /\ line = LineOf(text, i) /\ col = ColOf(text, i)

\* C2's case: a returned list whose EOF token is past the first line and
\* past the first column.
C2_Witness ==
  /\ Done
  /\ tokens[Len(tokens)].type = EOF
  /\ tokens[Len(tokens)].line > 1
  /\ tokens[Len(tokens)].col > 1

\* The input rebuilt from a call's log lg and token list toks: in order,
\* the lexeme of each appended token and, for an iteration that appended
\* none, what it consumed when its kind is in kinds.
RECURSIVE Rebuild(_, _, _)
Rebuild(lg, toks, kinds) ==
  IF lg = <<>> THEN <<>>
  ELSE IF Head(lg).what = "token"
    THEN IF toks = <<>> THEN <<"?">>
         ELSE Head(toks).lexeme \o Rebuild(Tail(lg), Tail(toks), kinds)
  ELSE IF Head(lg).what \in kinds
    THEN Head(lg).lex \o Rebuild(Tail(lg), toks, kinds)
  ELSE Rebuild(Tail(lg), toks, kinds)

\* The pieces of lg are consecutive slices of the input: each begins where
\* the one before it ended.
RECURSIVE Consecutive(_, _)
Consecutive(lg, from) ==
  \/ lg = <<>>
  \/ /\ Head(lg).at = from
     /\ Consecutive(Tail(lg), from + Len(Head(lg).lex))

\* C3 as claimed: the lexemes of the emitted tokens (EOF aside), the skipped
\* whitespace and the newlines whose NEWLINE token was suppressed, in input
\* order, are the whole input.
C3_AsClaimed ==
  Done => Rebuild(log, tokens, {"whitespace", "newline"}) = text

\* C3, amended: the lexemes of the emitted tokens (EOF aside), the skipped
\* whitespace, the newlines whose NEWLINE token was suppressed and the
\* comments whose COMMENT token was suppressed, in input order, are the
\* whole input; between tokens they are the input consumed so far.
C3_Coverage ==
  (pc \in {"loop", "done"}) =>
    /\ Rebuild(log, tokens, {"whitespace", "newline", "comment"})
         = SubSeq(text, 1, i)
    /\ Consecutive(log, 0)
    /\ Len(TokenEntries(log)) = Len(tokens) - (IF Done THEN 1 ELSE 0)
    /\ \A k \in 1..Len(log) :
         /\ log[k].what = "whitespace" => char_class(log[k].lex[1]) = C_WS
         /\ log[k].what = "newline" => log[k].lex = <<"\n">> /\ ~emit_newlines
         /\ log[k].what = "comment" => ~emit_comments
    /\ Done => i = Len(text)

\* C3's case: a returned list with a token in it, from a call that also
\* suppressed a comment.
C3_Witness ==
  /\ Done
  /\ \E k \in 1..Len(log) : log[k].what = "comment"
  /\ \E k \in 1..Len(log) : log[k].what = "token"

\* The longest lexeme of OPERATORS that the rest of t from 0-based index at
\* starts with; <<>> when there is none.
LongestOperatorAt(t, at) ==
  LET rest == SubSeq(t, at + 1, Len(t))
      fits == {k \in 1..Len(OPERATORS) : StartsWith(rest, OPERATORS[k])}
  IN IF fits = {} THEN <<>>
     ELSE OPERATORS[CHOOSE k \in fits :
                      \A m \in fits : Len(OPERATORS[m]) <= Len(OPERATORS[k])]

\* C4: the operator step, where it ends at an index at which some operator
\* lexeme is a prefix of the rest of the input, appends one OPERATOR token
\* with the longest such lexeme and consumes exactly its characters; where
\* no operator lexeme is a prefix there, it appends one token that is not an
\* OPERATOR.
C4_MaximalMunch ==
  [][(pc = "operator" /\ pc' # "operator") =>
       LET longest == LongestOperatorAt(text, i)
       IN /\ pc' = "loop"
          /\ Len(tokens') = Len(tokens) + 1
          /\ SubSeq(tokens', 1, Len(tokens)) = tokens
          /\ IF longest # <<>>
             THEN /\ tokens'[Len(tokens')] =
                       Token(OPERATOR, longest, LineOf(text, i), ColOf(text, i))
                  /\ i' = i + Len(longest)
             ELSE tokens'[Len(tokens')].type # OPERATOR]_vars

\* C4's case: the three-character operator of "**=" emitted whole.
C4_Witness ==
  /\ Done
  /\ \E k \in 1..Len(tokens) :
       tokens[k].type = OPERATOR /\ tokens[k].lexeme = <<"*", "*", "=">>

\* C5: every token but EOF is at the line and column, counted from the
\* text, of the index at which its iteration began, and its lexeme is the
\* input from that index on.
C5_TokenPositions ==
  LET entries == TokenEntries(log)
  IN /\ Len(entries) = Len(tokens) - (IF Done THEN 1 ELSE 0)
     /\ \A k \in 1..Len(entries) :
          LET tok == tokens[k]
              at == entries[k].at
          IN /\ tok.type # EOF
             /\ tok.line = LineOf(text, at)
             /\ tok.col = ColOf(text, at)
             /\ tok.lexeme # <<>>
             /\ at + Len(tok.lexeme) <= Len(text)
             /\ tok.lexeme = SubSeq(text, at + 1, at + Len(tok.lexeme))

\* C5's case: a token that begins past the first line and past the first
\* column.
C5_Witness ==
  \E k \in 1..Len(tokens) :
    tokens[k].type # EOF /\ tokens[k].line > 1 /\ tokens[k].col > 1

\* C6: a tokenize call returns the same list as every other call made with
\* the same flags on the same input, a second call on the same Lexer object
\* included.
C6_Idempotent ==
  \A a, b \in 1..Len(results) :
    (/\ results[a].emit_newlines = results[b].emit_newlines
     /\ results[a].emit_comments = results[b].emit_comments)
      => results[a].tokens = results[b].tokens

\* the lexer state n steps after s
RECURSIVE RunN(_, _)
RunN(s, n) ==
  IF n = 0 THEN s ELSE RunN(StepOf(s), n - 1)

\* The default run on t (both flags true) after n steps, the call included.
DefaultRun(t, n) == RunN(Call(Lexer(t), TRUE, TRUE), n - 1)

\* toks without its NEWLINE tokens unless en, and its COMMENT tokens
\* unless ec
Suppress(toks, en, ec) ==
  SelectSeq(toks, LAMBDA tok : /\ en \/ tok.type # NEWLINE
                               /\ ec \/ tok.type # COMMENT)

\* C7: step for step, a call with any flags has the cursor (index, line,
\* column) and the place in the scan of the default run on the same input,
\* and its token list is the default run's without the NEWLINE tokens when
\* emit_newlines is false and without the COMMENT tokens when emit_comments
\* is false: the other tokens are the same, in the same order; so is the
\* returned list.
C7_FlagSuppression ==
  (pc # "idle") =>
    LET d == DefaultRun(text, steps)
    IN /\ i = d.i /\ line = d.line /\ col = d.col /\ pc = d.pc
       /\ tokens = Suppress(d.tokens, emit_newlines, emit_comments)

\* C7's case: a call with both flags false that returned, on an input whose
\* default run has a NEWLINE token, a COMMENT token and another token after
\* them.
C7_Witness ==
  /\ Done /\ ~emit_newlines /\ ~emit_comments
  /\ LET d == DefaultRun(text, steps).tokens
     IN /\ OfType(d, NEWLINE) # <<>>
        /\ OfType(d, COMMENT) # <<>>
        /\ Len(tokens) >= 2
        /\ Len(d) > Len(tokens)

Quotes == {"'", "\""}

\* The backslashes that stand in a row just before position k of t, inside
\* the literal opened at position p (positions from 1).
RECURSIVE BackslashesBefore(_, _, _)
BackslashesBefore(t, p, k) ==
  IF k - 1 > p /\ t[k - 1] = "\\"
  THEN 1 + BackslashesBefore(t, p, k - 1)
  ELSE 0

\* The character at position k is not escaped: an even number of
\* backslashes stands before it.
Unescaped(t, p, k) == BackslashesBefore(t, p, k) % 2 = 0

\* The positions after p of the unescaped occurrences of the quote at p,
\* and of the unescaped newlines.
ClosersOf(t, p) ==
  {k \in (p + 1)..Len(t) : Unescaped(t, p, k) /\ t[k] = t[p]}
BreakersOf(t, p) ==
  {k \in (p + 1)..Len(t) : Unescaped(t, p, k) /\ t[k] = "\n"}

\* The literal opened at p is closed: an unescaped occurrence of its quote
\* comes before the end of input and before any unescaped newline.
ClosedAt(t, p) ==
  /\ ClosersOf(t, p) # {}
  /\ \A k \in BreakersOf(t, p) : Min(ClosersOf(t, p)) < k

\* C8: a token is a STRING token exactly when its iteration began at a quote
\* and an unescaped occurrence of that quote comes before the end of input
\* and before any unescaped newline, a character being escaped when an odd
\* number of backslashes stands before it; the lexeme then runs from the
\* opening quote to the first such occurrence, inclusive.  Every iteration
\* that begins at a quote appends a token.
C8_StringLiterals ==
  /\ \A k \in 1..Len(log) :
       text[log[k].at + 1] \in Quotes => log[k].what = "token"
  /\ LET entries == TokenEntries(log)
     IN \A k \in 1..Len(entries) :
          LET tok == tokens[k]
              p == entries[k].at + 1
          IN /\ tok.type = T_STRING <=> (text[p] \in Quotes /\ ClosedAt(text, p))
             /\ tok.type = T_STRING =>
                  tok.lexeme = SubSeq(text, p, Min(ClosersOf(text, p)))

\* C8's case: a STRING token whose lexeme holds an escaped occurrence of its
\* own quote before the closing one.
C8_Witness ==
  \E k \in 1..Len(tokens) :
    /\ tokens[k].type = T_STRING
    /\ \E m \in 2..(Len(tokens[k].lexeme) - 2) :
         /\ tokens[k].lexeme[m] = "\\"
         /\ tokens[k].lexeme[m + 1] = tokens[k].lexeme[1]

\* C9: when the call has returned, a literal whose opening quote is followed
\* by no unescaped occurrence of that quote and by no unescaped newline is
\* one ERROR token, at the opening quote, whose lexeme is the input from the
\* opening quote to the end; it is the last token before EOF.
C9_UnterminatedString ==
  Done =>
    LET entries == TokenEntries(log)
    IN \A k \in 1..Len(entries) :
         LET p == entries[k].at + 1
         IN (/\ text[p] \in Quotes
             /\ ClosersOf(text, p) = {}
             /\ BreakersOf(text, p) = {})
              => /\ tokens[k] =
                      Token(ERROR, SubSeq(text, p, Len(text)),
                            LineOf(text, p - 1), ColOf(text, p - 1))
                 /\ k = Len(entries)
                 /\ Len(tokens) = k + 1
                 /\ tokens[k + 1].type = EOF

\* C9's case: a literal that the end of input cuts off right after an
\* escaped quote, past the first column.
C9_Witness ==
  /\ Done
  /\ Len(tokens) >= 2
  /\ LET tok == tokens[Len(tokens) - 1]
     IN /\ tok.type = ERROR
        /\ tok.col > 1
        /\ Len(tok.lexeme) >= 3
        /\ tok.lexeme[1] \in Quotes
        /\ tok.lexeme[Len(tok.lexeme)] = tok.lexeme[1]
        /\ tok.lexeme[Len(tok.lexeme) - 1] = "\\"

\* C10: in a literal, at an unescaped newline, the step consumes the
\* newline and appends one ERROR token, at the opening quote, whose lexeme
\* runs from the opening quote to the newline, inclusive; no NEWLINE token is
\* appended, and the scan is back in the main loop at column 1 of the next
\* line.
C10_NewlineBrokenString ==
  [][(/\ pc = "string"
      /\ i < Len(text)
      /\ text[i + 1] = "\n"
      /\ Unescaped(text, start_i + 1, i + 1)) =>
       /\ tokens' =
            Append(tokens,
                   Token(ERROR, SubSeq(text, start_i + 1, i + 1),
                         LineOf(text, start_i), ColOf(text, start_i)))
       /\ i' = i + 1
       /\ line' = LineOf(text, i) + 1
       /\ col' = 1
       /\ pc' = "loop"]_vars

\* C10's case: an ERROR token for a literal broken by a newline, followed by
\* a token at column 1 of the next line.
C10_Witness ==
  \E k \in 1..(Len(tokens) - 1) :
    LET tok == tokens[k]
    IN /\ tok.type = ERROR
       /\ Len(tok.lexeme) >= 3
       /\ tok.lexeme[1] \in Quotes
       /\ tok.lexeme[Len(tok.lexeme)] = "\n"
       /\ tokens[k + 1].type \notin {EOF, NEWLINE}
       /\ tokens[k + 1].line = tok.line + 1
       /\ tokens[k + 1].col = 1

\* The character of t at 0-based index at; "" past the end.
CharAt(t, at) == IF at < Len(t) THEN t[at + 1] ELSE ""

IsDigit(c) == char_class(c) = C_DIGIT

\* how many '.' the lexeme holds
DotsOf(lexeme) == Cardinality({m \in 1..Len(lexeme) : lexeme[m] = "."})

\* A numeric literal can start at 0-based index at of t: a digit, or a '.'
\* with a digit right after it.
NumericStartAt(t, at) ==
  \/ IsDigit(CharAt(t, at))
  \/ CharAt(t, at) = "." /\ IsDigit(CharAt(t, at + 1))

\* the token list of a call that produced the one token tok, then EOF
Single(tok, eofCol) == <<tok, Token(EOF, <<>>, 1, eofCol)>>

\* C11: a token is numeric (INTEGER or FLOAT) exactly when it starts at a
\* digit or at a '.' immediately followed by a digit; a numeric lexeme is
\* digits with at most one '.', and is maximal (the next input character is
\* no digit, and is a '.' only when the lexeme already holds one); it is a
\* FLOAT exactly when it holds a '.', else an INTEGER.  "123" gives
\* INTEGER("123"), "3.14" FLOAT("3.14"), ".5" FLOAT(".5"), "5." FLOAT("5.").
C11_NumericLiterals ==
  LET entries == TokenEntries(log)
  IN /\ \A k \in 1..Len(entries) :
          LET tok == tokens[k]
              at == entries[k].at
              end == at + Len(tok.lexeme)
          IN /\ (tok.type \in {INTEGER, FLOAT}) <=> NumericStartAt(text, at)
             /\ (tok.type \in {INTEGER, FLOAT}) =>
                  /\ tok.lexeme = SubSeq(text, at + 1, end)
                  /\ \A m \in 1..Len(tok.lexeme) :
                       IsDigit(tok.lexeme[m]) \/ tok.lexeme[m] = "."
                  /\ DotsOf(tok.lexeme) <= 1
                  /\ ~IsDigit(CharAt(text, end))
                  /\ CharAt(text, end) = "." => DotsOf(tok.lexeme) = 1
                  /\ (tok.type = FLOAT) <=> (DotsOf(tok.lexeme) = 1)
     /\ (Done /\ text = <<"1", "2", "3">>) =>
          tokens = Single(Token(INTEGER, text, 1, 1), 4)
     /\ (Done /\ text = <<"3", ".", "1", "4">>) =>
          tokens = Single(Token(FLOAT, text, 1, 1), 5)
     /\ (Done /\ text = <<".", "5">>) =>
          tokens = Single(Token(FLOAT, text, 1, 1), 3)
     /\ (Done /\ text = <<"5", ".">>) =>
          tokens = Single(Token(FLOAT, text, 1, 1), 3)

\* C11's case: a returned list holding a FLOAT that begins with its '.' and
\* a FLOAT that ends with its '.'.
C11_Witness ==
  /\ Done
  /\ \E k \in 1..Len(tokens) :
       tokens[k].type = FLOAT /\ tokens[k].lexeme[1] = "."
  /\ \E k \in 1..Len(tokens) :
       tokens[k].type = FLOAT /\ tokens[k].lexeme[Len(tokens[k].lexeme)] = "."

\* The k-th token is a numeric literal that holds a '.' and is immediately
\* followed in the input by another '.'.
BeforeSecondDot(k) ==
  LET tok == tokens[k]
      end == TokenEntries(log)[k].at + Len(tok.lexeme)
  IN /\ tok.type \in {INTEGER, FLOAT}
     /\ DotsOf(tok.lexeme) = 1
     /\ CharAt(text, end) = "."

\* C12 as claimed: the token after a numeric literal that holds a '.' and is
\* immediately followed by another '.' is DELIMITER("."); "1.2.3" yields
\* FLOAT("1.2"), DELIMITER("."), then a token for "3".
C12_AsClaimed ==
  LET entries == TokenEntries(log)
  IN /\ \A k \in 1..Len(entries) :
          (BeforeSecondDot(k) /\ k < Len(entries)) =>
            /\ tokens[k + 1].type = DELIMITER
            /\ tokens[k + 1].lexeme = <<".">>
     /\ (Done /\ text = <<"1", ".", "2", ".", "3">>) =>
          /\ Len(tokens) = 4
          /\ tokens[1] = Token(FLOAT, <<"1", ".", "2">>, 1, 1)
          /\ tokens[2] = Token(DELIMITER, <<".">>, 1, 4)
          /\ tokens[3].lexeme = <<"3">>

\* C12, amended: a numeric literal that holds a '.' and is immediately
\* followed by another '.' ends before that second '.', and the next token
\* starts at it: a FLOAT beginning with that '.' when a digit comes right
\* after it, DELIMITER(".") otherwise.  "1.2.3" yields FLOAT("1.2"),
\* FLOAT(".3"); "1.2.x" would yield FLOAT("1.2"), DELIMITER("."), then x.
C12_SecondDot ==
  LET entries == TokenEntries(log)
  IN /\ \A k \in 1..Len(entries) :
          BeforeSecondDot(k) =>
            LET end == entries[k].at + Len(tokens[k].lexeme)
            IN /\ Done => k < Len(entries)
               /\ (k = Len(entries) /\ pc = "loop") => i = end
               /\ k < Len(entries) =>
                    /\ entries[k + 1].at = end
                    /\ tokens[k + 1].col = tokens[k].col + Len(tokens[k].lexeme)
                    /\ IF IsDigit(CharAt(text, end + 1))
                       THEN /\ tokens[k + 1].type = FLOAT
                            /\ Len(tokens[k + 1].lexeme) >= 2
                            /\ tokens[k + 1].lexeme[1] = "."
                            /\ IsDigit(tokens[k + 1].lexeme[2])
                       ELSE /\ tokens[k + 1].type = DELIMITER
                            /\ tokens[k + 1].lexeme = <<".">>
     /\ (Done /\ text = <<"1", ".", "2", ".", "3">>) =>
          tokens = << Token(FLOAT, <<"1", ".", "2">>, 1, 1),
                      Token(FLOAT, <<".", "3">>, 1, 4),
                      Token(EOF, <<>>, 1, 6) >>

\* C12's case: the call on "1.2.3" has returned.
C12_Witness ==
  /\ Done
  /\ text = <<"1", ".", "2", ".", "3">>
  /\ \E k \in 1..Len(TokenEntries(log)) : BeforeSecondDot(k)

\* (l1, c1) <= (l2, c2) in lexicographic order
PosLeq(l1, c1, l2, c2) == l1 < l2 \/ (l1 = l2 /\ c1 <= c2)

\* C13: in the token list, at every moment of the scan and in what is
\* returned, each token's (line, column) is greater than or equal to that of
\* the token before it, the final EOF token and the tokens after a
\* multi-line string or a newline-terminated ERROR token included.
C13_PositionMonotone ==
  \A k \in 1..(Len(tokens) - 1) :
    PosLeq(tokens[k].line, tokens[k].col,
           tokens[k + 1].line, tokens[k + 1].col)

\* C13's case: a returned list in which an ERROR token whose lexeme ends
\* with the newline that broke the string is followed by a token other than
\* EOF.
C13_Witness ==
  /\ Done
  /\ \E k \in 1..(Len(tokens) - 1) :
       /\ tokens[k].type = ERROR
       /\ tokens[k].lexeme[Len(tokens[k].lexeme)] = "\n"
       /\ tokens[k + 1].type # EOF

\* The character at 0-based index at of t is one no branch of the scan loop
\* recognizes: no layout, '#', quote, letter, underscore, digit or '.' that
\* starts a number; no operator lexeme is a prefix of the input from there;
\* and it is no delimiter.
UnrecognizedAt(t, at) ==
  /\ at < Len(t)
  /\ char_class(CharAt(t, at)) \notin
       {C_WS, C_NL, C_HASH, C_SQUOTE, C_DQUOTE, C_LETTER, C_DIGIT}
  /\ ~NumericStartAt(t, at)
  /\ LongestOperatorAt(t, at) = <<>>
  /\ CharAt(t, at) \notin DELIMITERS

\* how many of the first m iterations of lg appended a token
TokensUpTo(lg, m) == Len(TokenEntries(SubSeq(lg, 1, m)))

\* C14: an iteration that begins at an unrecognized character appends one
\* ERROR token whose lexeme is that single character, at its line and
\* column, and consumes exactly that character: the scan goes on at the very
\* next character.  No other iteration appends a one-character ERROR token
\* that is not a quote.
C14_UnrecognizedCharacter ==
  \A m \in 1..Len(log) :
    LET at == log[m].at
        k == TokensUpTo(log, m)
    IN /\ UnrecognizedAt(text, at) =>
            /\ log[m].what = "token"
            /\ tokens[k] = Token(ERROR, <<CharAt(text, at)>>,
                                 LineOf(text, at), ColOf(text, at))
            /\ k = 1 + TokensUpTo(log, m - 1)
            /\ IF m < Len(log) THEN log[m + 1].at = at + 1
               ELSE (pc \in {"loop", "done"}) => i = at + 1
       /\ (/\ log[m].what = "token"
           /\ tokens[k].type = ERROR
           /\ CharAt(text, at) \notin Quotes) => UnrecognizedAt(text, at)

\* C14's case: a returned list with the ERROR tokens of two unrecognized
\* characters in a row, the first of them a '!' that no '=' follows.
C14_Witness ==
  /\ Done
  /\ \E k \in 1..(Len(tokens) - 1) :
       /\ tokens[k] = Token(ERROR, <<"!">>, 1, tokens[k].col)
       /\ tokens[k + 1].type = ERROR
       /\ tokens[k + 1].lexeme \in {<<"@">>, <<"$">>, <<"é">>, <<"\\">>}

\* letter, underscore or digit
IsWordChar(c) == char_class(c) \in {C_LETTER, C_DIGIT}

\* some reserved word is a proper prefix of the lexeme
KeywordProperPrefix(lexeme) ==
  \E n \in 1..(Len(lexeme) - 1) : SubSeq(lexeme, 1, n) \in PYTHON_KEYWORDS

\* C15: a token is a KEYWORD or an IDENTIFIER exactly when it starts at a
\* letter or underscore; its lexeme is then the run of letters, underscores
\* and digits from there, maximal (the next input character is none of
\* these); it is a KEYWORD exactly when the whole lexeme is a reserved word,
\* else an IDENTIFIER, so a run that merely starts with a reserved word is an
\* IDENTIFIER.
C15_IdentifiersAndKeywords ==
  LET entries == TokenEntries(log)
  IN \A k \in 1..Len(entries) :
       LET tok == tokens[k]
           at == entries[k].at
           end == at + Len(tok.lexeme)
       IN /\ (tok.type \in {KEYWORD, IDENTIFIER})
               <=> (char_class(CharAt(text, at)) = C_LETTER)
          /\ (tok.type \in {KEYWORD, IDENTIFIER}) =>
               /\ tok.lexeme = SubSeq(text, at + 1, end)
               /\ \A m \in 1..Len(tok.lexeme) : IsWordChar(tok.lexeme[m])
               /\ ~IsWordChar(CharAt(text, end))
               /\ (tok.type = KEYWORD) <=> (tok.lexeme \in PYTHON_KEYWORDS)
               /\ (/\ KeywordProperPrefix(tok.lexeme)
                   /\ tok.lexeme \notin PYTHON_KEYWORDS)
                    => tok.type = IDENTIFIER

\* C15's case: a returned list with an IDENTIFIER whose lexeme starts with
\* a reserved word and goes on.
C15_Witness ==
  /\ Done
  /\ \E k \in 1..Len(tokens) :
       tokens[k].type = IDENTIFIER /\ KeywordProperPrefix(tokens[k].lexeme)

\* The 0-based index of the first newline of t at or after index at; Len(t)
\* when there is none.
LineEndFrom(t, at) ==
  Min({p \in at..(Len(t) - 1) : t[p + 1] = "\n"} \cup {Len(t)})

\* The m-th iteration of the log consumed a comment: it appended a COMMENT
\* token or, with emit_comments false, nothing.
IsCommentPiece(m) ==
  \/ log[m].what = "comment"
  \/ log[m].what = "token" /\ tokens[TokensUpTo(log, m)].type = COMMENT

\* C16: an iteration consumes a comment exactly when it begins at a '#'
\* (so outside any string literal); the comment is the input from the '#' up
\* to but excluding the next newline or the end of input, whatever it holds;
\* it is appended as a COMMENT token exactly when emit_comments is set; the
\* newline that ended it is what the next iteration begins at and consumes
\* as a newline.  No iteration begins at a '#' that lies inside the lexeme of
\* a token that begins with a quote.
C16_Comments ==
  \A m \in 1..Len(log) :
    LET at == log[m].at
        end == LineEndFrom(text, at)
    IN /\ IsCommentPiece(m) <=> (CharAt(text, at) = "#")
       /\ IsCommentPiece(m) =>
            /\ log[m].lex = SubSeq(text, at + 1, end)
            /\ log[m].lex[1] = "#"
            /\ \A n \in 1..Len(log[m].lex) : log[m].lex[n] # "\n"
            /\ (log[m].what = "token") <=> emit_comments
            /\ log[m].what = "token" =>
                 tokens[TokensUpTo(log, m)] =
                   Token(COMMENT, log[m].lex, LineOf(text, at), ColOf(text, at))
            /\ (m = Len(log) /\ pc \in {"loop", "done"}) => i = end
            /\ (m = Len(log) /\ Done) => end = Len(text)
            /\ m < Len(log) =>
                 /\ log[m + 1].at = end
                 /\ log[m + 1].lex = <<"\n">>
                 /\ IF emit_newlines
                    THEN /\ log[m + 1].what = "token"
                         /\ tokens[TokensUpTo(log, m + 1)].type = NEWLINE
                    ELSE log[m + 1].what = "newline"
       /\ CharAt(text, at) \in Quotes =>
            \A n \in 1..Len(log) :
              ~(/\ at < log[n].at
                /\ log[n].at < at + Len(log[m].lex)
                /\ CharAt(text, log[n].at) = "#")

\* C16's case: a returned list with a COMMENT token that holds a quote and
\* is followed by the NEWLINE token of the newline that ended it.
C16_Witness ==
  /\ Done
  /\ \E k \in 1..(Len(tokens) - 1) :
       /\ tokens[k].type = COMMENT
       /\ \E n \in 1..Len(tokens[k].lexeme) : tokens[k].lexeme[n] = "'"
       /\ tokens[k + 1].type = NEWLINE

\* index, line and column of the lexer state s
CursorOf(s) == <<s.i, s.line, s.col>>

\* The handler taken from the current state calls _peek and never _advance.
OnlyPeeks ==
  \/ AtEndOfInput(Cur)
  \/ AtCommentEnd(Cur)
  \/ AtIdentEnd(Cur)
  \/ AtNumberEnd(Cur)
  \/ AtStringEof(Cur)

\* C17: in every reachable state 0 <= i <= Len(text), line is 1 + the
\* newlines among the consumed characters and col is 1 + the characters
\* consumed since the last consumed newline (or the start); at end of input
\* _advance returns "" and leaves i, line and col as they are; and a step
\* that only peeks leaves them as they are, every other step moving them by
\* whole calls of _advance.
C17_CursorInvariant ==
  /\ [](/\ 0 <= i /\ i <= Len(text)
        /\ line = LineOf(text, i)
        /\ col = ColOf(text, i)
        /\ _peek(Cur) = "" =>
             /\ i = Len(text)
             /\ _advance_returns(Cur) = ""
             /\ CursorOf(_advance(Cur)) = <<i, line, col>>)
  /\ [][/\ OnlyPeeks => <<i', line', col'>> = <<i, line, col>>
        /\ i' >= i
        /\ <<i', line', col'>> = CursorOf(AdvanceN(Cur, i' - i))]_vars

\* C17's case: the scan of a string literal stands at end of input, past
\* the first line and past the first column.
C17_Witness ==
  /\ pc = "string"
  /\ _peek(Cur) = ""
  /\ line > 1
  /\ col > 1

\* the k-th token is DELIMITER(".")
IsDotDelimiter(k) ==
  tokens[k].type = DELIMITER /\ tokens[k].lexeme = <<".">>

\* C18: the input character right after an INTEGER token is never a '.' or
\* a digit ("5.x" yields FLOAT("5.") then IDENTIFIER("x")); and the '.' of a
\* DELIMITER(".") token is not immediately followed by a digit and is not
\* the first '.' directly after the digits of a numeric literal: a numeric
\* token that ends where it stands already holds a '.'.
C18_IntegerNeverBeforeDot ==
  LET entries == TokenEntries(log)
  IN /\ \A k \in 1..Len(entries) :
          LET at == entries[k].at
              end == at + Len(tokens[k].lexeme)
          IN /\ tokens[k].type = INTEGER =>
                  /\ CharAt(text, end) # "."
                  /\ ~IsDigit(CharAt(text, end))
             /\ IsDotDelimiter(k) =>
                  /\ CharAt(text, at) = "."
                  /\ ~IsDigit(CharAt(text, at + 1))
                  /\ \A n \in 1..Len(entries) :
                       (/\ tokens[n].type \in {INTEGER, FLOAT}
                        /\ entries[n].at + Len(tokens[n].lexeme) = at)
                         => /\ tokens[n].type = FLOAT
                            /\ DotsOf(tokens[n].lexeme) = 1
     /\ (Done /\ text = <<"5", ".", "x">>) =>
          tokens = << Token(FLOAT, <<"5", ".">>, 1, 1),
                      Token(IDENTIFIER, <<"x">>, 1, 3),
                      Token(EOF, <<>>, 1, 4) >>

\* C18's case: a returned list in which a FLOAT that ends with its '.' is
\* followed by an IDENTIFIER, and which also holds a DELIMITER(".").
C18_Witness ==
  /\ Done
  /\ \E k \in 1..(Len(tokens) - 1) :
       /\ tokens[k].type = FLOAT
       /\ tokens[k].lexeme[Len(tokens[k].lexeme)] = "."
       /\ tokens[k + 1].type = IDENTIFIER
  /\ \E k \in 1..Len(tokens) : IsDotDelimiter(k)

\* The states the table leads to from the states of S, those included.
RECURSIVE ReachFrom(_)
ReachFrom(S) ==
  LET step == UNION {{transitions[q][c] : c \in DOMAIN transitions[q]} :
                       q \in S \cap DOMAIN transitions}
  IN IF step \subseteq S THEN S ELSE ReachFrom(S \cup step)

\* The table defines a next state for every character class in every state
\* it can enter from S_START (S_DONE, where a run ends, aside).
TableComplete ==
  \A q \in ReachFrom({S_START}) \ {S_DONE} :
    \A c \in CharClasses : HasEntry(q, c)

\* The table run on t from 0-based index p in state q: each character whose
\* class leads to a state other than S_DONE is consumed; the run ends at
\* S_DONE or at the end of the input.  end is the index it stops at, ok is
\* FALSE when it stops for want of an entry.
RECURSIVE TableRun(_, _, _)
TableRun(t, p, q) ==
  LET c == char_class(CharAt(t, p))
  IN IF ~HasEntry(q, c) THEN [ok |-> FALSE, end |-> p]
     ELSE IF transitions[q][c] = S_DONE \/ p >= Len(t)
       THEN [ok |-> TRUE, end |-> p]
     ELSE TableRun(t, p + 1, transitions[q][c])

\* The m-th iteration of the log consumed an identifier, a keyword, a
\* numeric literal or a comment.
IsTablePiece(m) ==
  \/ IsCommentPiece(m)
  \/ /\ log[m].what = "token"
     /\ tokens[TokensUpTo(log, m)].type
          \in {KEYWORD, IDENTIFIER, INTEGER, FLOAT}

\* The table run from S_START consumes what the m-th iteration consumed.
TableAgreesOn(m) ==
  LET run == TableRun(text, log[m].at, S_START)
  IN run.ok /\ run.end = log[m].at + Len(log[m].lex)

\* C19: the transitions table defines a next state for every character
\* class in every state it can enter from S_START (C_BSLASH in S_START and
\* the rows of S_STRING_SQ and S_STRING_DQ included), and run from S_START
\* it consumes the same lexeme as the scan loop does for every identifier,
\* numeric literal (one that starts with '.' included) and comment.
C19_TableAgrees ==
  /\ \A m \in 1..Len(log) : IsTablePiece(m) => TableAgreesOn(m)
  /\ TableComplete

====
